---------------------------- MODULE Spec2Model ----------------------------
(***************************************************************************)
(* Word-level text diff (src/src/index.ts): tokenization, the LCS table,   *)
(* the backtracking loop of computeLCS, the position extraction of         *)
(* compareTexts, and the two renderings visualizeDiff and                  *)
(* formatDiffAsHtml.                                                       *)
(*                                                                         *)
(* A text is a sequence of one-character strings; a word (token) is a      *)
(* non-empty sequence of characters.  Array indices of the source are      *)
(* 0-based; TLA+ sequences are 1-based, so baseWords[i - 1] of the source  *)
(* is baseWords[i] here, and lcs[i][j] of the source is Cell(lcs, i, j).   *)
(***************************************************************************)
EXTENDS Integers, Sequences, FiniteSets, TLC

VARIABLES
    baseText,      \* argument baseText of the call
    updatedText,   \* argument updatedText of the call
    options,       \* argument options of the call (possibly undefined)
    pc,            \* position of the call
    baseWords,     \* const baseWords    (index.ts:42)
    updatedWords,  \* const updatedWords (index.ts:46)
    lcs,           \* const lcs          (index.ts:88)
    i,             \* let i              (index.ts:105)
    j,             \* let j              (index.ts:106)
    changes,       \* const changes      (index.ts:104)
    result,        \* the DiffResult returned (index.ts:64)
    fn,            \* the exported function that was called
    document,      \* the global document, or its absence
    htmlOptions,   \* argument options of formatDiffAsHtml
    visualization, \* let visualization  (index.ts:159)
    container,     \* const container: its child nodes (index.ts:269)
    html,          \* the string formatDiffAsHtml returns (index.ts:285)
    error          \* message of the Error thrown, "" when none

\* What the caller supplies besides the texts and the compare options.
callVars == <<fn, document, htmlOptions>>

\* What the renderings build.
renderVars == <<visualization, container, html, error>>

vars == <<baseText, updatedText, options, pc, baseWords, updatedWords,
          lcs, i, j, changes, result, callVars, renderVars>>

(***************************************************************************)
(* Bounds of the model.                                                    *)
(***************************************************************************)
MaxWords == 3
MaxTextLen == 3

\* Characters of the raw texts: one whitespace character, a letter in both
\* cases.
Chars == {" ", "a", "A"}

\* Words of the word-built texts: two spellings of one word, and another word.
WordSet == {<<"a">>, <<"A">>, <<"b">>}

Max(x, y) == IF x >= y THEN x ELSE y

(***************************************************************************)
(* Strings.                                                                *)
(***************************************************************************)
\* \s of the regular expression and the white space String.prototype.trim
\* strips.
IsWhitespace(c) == c \in {" ", "\t", "\n", "\r"}

\* String.prototype.toLowerCase, character by character.
LowerChar(c) ==
    CASE c = "A" -> "a"
      [] c = "B" -> "b"
      [] OTHER -> c

toLowerCase(word) == [k \in 1..Len(word) |-> LowerChar(word[k])]

RECURSIVE TrimStart(_)
TrimStart(s) ==
    IF s # <<>> /\ IsWhitespace(Head(s)) THEN TrimStart(Tail(s)) ELSE s

RECURSIVE TrimEnd(_)
TrimEnd(s) ==
    IF s # <<>> /\ IsWhitespace(s[Len(s)])
    THEN TrimEnd(SubSeq(s, 1, Len(s) - 1))
    ELSE s

\* String.prototype.trim
trim(s) == TrimEnd(TrimStart(s))

\* s.split(/\s+/): the pieces of s between maximal runs of white space; a
\* separator at the start or at the end of s leaves an empty piece there, and
\* the empty string splits into one empty piece.
RECURSIVE SplitFrom(_, _, _, _)
SplitFrom(s, k, cur, inSep) ==
    IF k > Len(s) THEN <<cur>>
    ELSE IF IsWhitespace(s[k])
         THEN IF inSep THEN SplitFrom(s, k + 1, cur, TRUE)
              ELSE <<cur>> \o SplitFrom(s, k + 1, <<>>, TRUE)
         ELSE SplitFrom(s, k + 1, Append(cur, s[k]), FALSE)

split(s) == SplitFrom(s, 1, <<>>, FALSE)

\* filter that keeps every piece, the empty ones too
filter_KeepAll(words) == words

\* .filter((word) => word.length > 0)
filter(words) == SelectSeq(words, LAMBDA word : Len(word) > 0)

\* text.trim().split(/\s+/).filter((word) => word.length > 0)
Tokenize(text) == filter(split(trim(text)))


RECURSIVE Join(_)
\* The words written one after the other with single spaces between them.
Join(words) ==
    IF words = <<>> THEN <<>>
    ELSE IF Len(words) = 1 THEN words[1]
    ELSE words[1] \o <<" ">> \o Join(Tail(words))

(***************************************************************************)
(* Options.  An options argument is undefined (defined = FALSE) or an      *)
(* object whose ignoreCase field reads "undefined" (field absent), "true"  *)
(* or "false".                                                             *)
(***************************************************************************)
NoOptions == [defined |-> FALSE, ignoreCase |-> "undefined"]
EmptyOptions == [defined |-> TRUE, ignoreCase |-> "undefined"]
CaseSensitiveOptions == [defined |-> TRUE, ignoreCase |-> "false"]
IgnoreCaseOptions == [defined |-> TRUE, ignoreCase |-> "true"]

OptionSet == {NoOptions, EmptyOptions, CaseSensitiveOptions, IgnoreCaseOptions}

\* options?.ignoreCase ?? true
ignoreCaseOf_DefaultTrue(opts) ==
    LET v == IF opts.defined THEN opts.ignoreCase ELSE "undefined"
    IN  IF v = "undefined" THEN TRUE ELSE v = "true"

\* options?.ignoreCase ?? false
ignoreCaseOf(opts) ==
    LET v == IF opts.defined THEN opts.ignoreCase ELSE "undefined"
    IN  IF v = "undefined" THEN FALSE ELSE v = "true"

\* The options argument of formatDiffAsHtml: undefined, or an object.  A
\* field that may be absent is a set: empty when absent, else holding the
\* value.
NoHtmlOptions ==
    [defined |-> FALSE, ignoreCase |-> "undefined", addedStyle |-> {},
     removedStyle |-> {}, showAdded |-> "undefined",
     showRemoved |-> "undefined"]

(***************************************************************************)
(* computeLCS.                                                             *)
(***************************************************************************)
\* word1.toLowerCase() === word2 when ignoreCase
wordsEqual_LowerLeftOnly(word1, word2, ignoreCase) ==
    IF ignoreCase
    THEN toLowerCase(word1) = word2
    ELSE word1 = word2

wordsEqual(word1, word2, ignoreCase) ==
    IF ignoreCase
    THEN toLowerCase(word1) = toLowerCase(word2)
    ELSE word1 = word2

\* lcs[a][b] of the source: the table is a sequence of rows 0..m, each a
\* sequence of cells 0..n.
Cell(table, a, b) == table[a + 1][b + 1]

\* Array(n + 1).fill(0)
ZeroRow(n) == [b \in 1..(n + 1) |-> 0]

\* lcs[i][j] = lcs[i - 1][j] when the words differ
FillCell_NoMax(prevRow, curRow, word, uw, b, ignoreCase) ==
    IF wordsEqual(word, uw[b], ignoreCase)
    THEN prevRow[b] + 1
    ELSE prevRow[b + 1]

\* The value the inner loop body stores in lcs[a][b], given row a - 1 and the
\* cells 0..b-1 of row a.
FillCell(prevRow, curRow, word, uw, b, ignoreCase) ==
    IF wordsEqual(word, uw[b], ignoreCase)
    THEN prevRow[b] + 1
    ELSE Max(prevRow[b + 1], curRow[b])

\* Cells 0..b of row a after the inner loop has run for j = 1..b.
RECURSIVE FillRow(_, _, _, _, _)
FillRow(prevRow, word, uw, b, ignoreCase) ==
    IF b = 0 THEN <<0>>
    ELSE LET curRow == FillRow(prevRow, word, uw, b - 1, ignoreCase)
         IN  Append(curRow, FillCell(prevRow, curRow, word, uw, b, ignoreCase))

\* Rows 0..a of the table after the outer loop has run for i = 1..a.
RECURSIVE FillRows(_, _, _, _)
FillRows(bw, uw, a, ignoreCase) ==
    IF a = 0 THEN <<ZeroRow(Len(uw))>>
    ELSE LET rows == FillRows(bw, uw, a - 1, ignoreCase)
         IN  Append(rows, FillRow(rows[a], bw[a], uw, Len(uw), ignoreCase))

FillLcsTable(bw, uw, ignoreCase) == FillRows(bw, uw, Len(bw), ignoreCase)

\* i > 0 && j > 0, without the comparison of the words
UnchangedBranch_AnyWords(bw, uw, a, b, ignoreCase) ==
    a > 0 /\ b > 0

\* The three branches of the backtracking loop, in the order the code tests
\* them.
UnchangedBranch(bw, uw, a, b, ignoreCase) ==
    a > 0 /\ b > 0 /\ wordsEqual(bw[a], uw[b], ignoreCase)

\* lcs[i - 1][j] > lcs[i][j - 1]: a tie goes to the third branch.
RemovedBranch_StrictlyGreater(table, a, b) ==
    a > 0 /\ (IF b = 0 THEN TRUE
              ELSE Cell(table, a - 1, b) > Cell(table, a, b - 1))

RemovedBranch(table, a, b) ==
    a > 0 /\ (IF b = 0 THEN TRUE
              ELSE Cell(table, a - 1, b) >= Cell(table, a, b - 1))

\* baseIndex: i
UnchangedChange_BaseIndexOffByOne(bw, a, b) ==
    [type |-> "unchanged", word |-> bw[a], baseIndex |-> a,
     updatedIndex |-> b - 1]

\* word: baseWords[i - 1].toLowerCase()
UnchangedChange_FoldedWord(bw, a, b) ==
    [type |-> "unchanged", word |-> toLowerCase(bw[a]), baseIndex |-> a - 1,
     updatedIndex |-> b - 1]

UnchangedChange(bw, a, b) ==
    [type |-> "unchanged", word |-> bw[a], baseIndex |-> a - 1,
     updatedIndex |-> b - 1]

RemovedChange(bw, a) ==
    [type |-> "removed", word |-> bw[a], baseIndex |-> a - 1]

AddedChange(uw, b) ==
    [type |-> "added", word |-> uw[b], updatedIndex |-> b - 1]

\* changes.push(change)
unshift_AsPush(chs, change) == Append(chs, change)

\* changes.unshift(change)
unshift(chs, change) == <<change>> \o chs

\* while (i > 0 && j > 0)
LoopCondition_AndBoth(a, b) == a > 0 /\ b > 0

\* while (i >= 0 || j >= 0)
LoopCondition_OrEqual(a, b) == a >= 0 \/ b >= 0

\* while (i > 0 || j > 0)
LoopCondition(a, b) == ~(a <= 0 /\ b <= 0)

\* The while loop of computeLCS from (a, b) with `chs` collected so far.
RECURSIVE Backtrack(_, _, _, _, _, _, _)
Backtrack(bw, uw, table, a, b, chs, ignoreCase) ==
    IF ~LoopCondition(a, b) THEN chs
    ELSE IF UnchangedBranch(bw, uw, a, b, ignoreCase)
    THEN Backtrack(bw, uw, table, a - 1, b - 1,
                   unshift(chs, UnchangedChange(bw, a, b)), ignoreCase)
    ELSE IF RemovedBranch(table, a, b)
    THEN Backtrack(bw, uw, table, a - 1, b,
                   unshift(chs, RemovedChange(bw, a)), ignoreCase)
    ELSE Backtrack(bw, uw, table, a, b - 1,
                   unshift(chs, AddedChange(uw, b)), ignoreCase)

computeLCS(bw, uw, opts) ==
    LET ignoreCase == ignoreCaseOf(opts)
    IN  Backtrack(bw, uw, FillLcsTable(bw, uw, ignoreCase), Len(bw), Len(uw),
                  <<>>, ignoreCase)

(***************************************************************************)
(* compareTexts.                                                           *)
(***************************************************************************)
\* the callback with both pushes going to removedPositions
PushPosition_BothToRemoved(acc, change) ==
    IF change.type = "removed" /\ "baseIndex" \in DOMAIN change
    THEN [acc EXCEPT !.removedPositions = Append(@, change.baseIndex)]
    ELSE IF change.type = "added" /\ "updatedIndex" \in DOMAIN change
    THEN [acc EXCEPT !.removedPositions = Append(@, change.updatedIndex)]
    ELSE acc

\* The callback of changes.forEach: one push per removed or added change.
PushPosition(acc, change) ==
    IF change.type = "removed" /\ "baseIndex" \in DOMAIN change
    THEN [acc EXCEPT !.removedPositions = Append(@, change.baseIndex)]
    ELSE IF change.type = "added" /\ "updatedIndex" \in DOMAIN change
    THEN [acc EXCEPT !.addedPositions = Append(@, change.updatedIndex)]
    ELSE acc

\* changes.forEach(...)
RECURSIVE ExtractPositions(_, _)
ExtractPositions(chs, acc) ==
    IF chs = <<>> THEN acc
    ELSE ExtractPositions(Tail(chs), PushPosition(acc, Head(chs)))

EmptyResult == [removedPositions |-> <<>>, addedPositions |-> <<>>]

compareTexts(bText, uText, opts) ==
    ExtractPositions(computeLCS(Tokenize(bText), Tokenize(uText), opts),
                     EmptyResult)

(***************************************************************************)
(* The call compareTexts(baseText, updatedText, options), step by step.    *)
(***************************************************************************)
RECURSIVE SeqsUpTo(_, _)
\* The sequences over S of length at most k.
SeqsUpTo(S, k) ==
    IF k = 0 THEN {<<>>}
    ELSE LET shorter == SeqsUpTo(S, k - 1)
         IN  shorter \cup {Append(s, x) : s \in shorter, x \in S}

\* Texts written word by word with single spaces.
WordTexts == {Join(ws) : ws \in SeqsUpTo(WordSet, MaxWords)}

\* Texts written character by character, white space anywhere.
RawTexts == SeqsUpTo(Chars, MaxTextLen)

\* Nothing has been rendered or thrown.
NothingRendered ==
    /\ visualization = <<>>
    /\ container = <<>>
    /\ html = <<>>
    /\ error = ""

InitCall(texts) ==
    /\ baseText \in texts
    /\ updatedText \in texts
    /\ options \in OptionSet
    /\ pc = "call"
    /\ baseWords = <<>>
    /\ updatedWords = <<>>
    /\ lcs = <<>>
    /\ i = 0
    /\ j = 0
    /\ changes = <<>>
    /\ result = EmptyResult
    /\ NothingRendered

\* compareTexts(baseText, updatedText, options), called where there is no
\* document.
InitWith(texts) ==
    /\ InitCall(texts)
    /\ fn = "compareTexts"
    /\ document = "undefined"
    /\ htmlOptions = NoHtmlOptions

Init == InitWith(WordTexts)

InitText == InitWith(RawTexts)

\* index.ts:42-49
TokenizeTexts ==
    /\ pc = "call"
    /\ fn \in {"compareTexts", "visualizeDiff"}
    /\ baseWords' = Tokenize(baseText)
    /\ updatedWords' = Tokenize(updatedText)
    /\ pc' = "fill"
    /\ UNCHANGED <<baseText, updatedText, options, lcs, i, j, changes, result,
                   callVars, renderVars>>

\* index.ts:75-106
\* The op list is not created afresh by the call.
FillTable_KeepChanges ==
    /\ pc = "fill"
    /\ lcs' = FillLcsTable(baseWords, updatedWords, ignoreCaseOf(options))
    /\ i' = Len(baseWords)
    /\ j' = Len(updatedWords)
    /\ pc' = "backtrack"
    /\ UNCHANGED <<baseText, updatedText, options, baseWords, updatedWords,
                   changes, result, callVars, renderVars>>

FillTable ==
    /\ pc = "fill"
    /\ lcs' = FillLcsTable(baseWords, updatedWords, ignoreCaseOf(options))
    /\ i' = Len(baseWords)
    /\ j' = Len(updatedWords)
    /\ changes' = <<>>
    /\ pc' = "backtrack"
    /\ UNCHANGED <<baseText, updatedText, options, baseWords, updatedWords,
                   result, callVars, renderVars>>

\* index.ts:109-118
BacktrackUnchanged ==
    /\ pc = "backtrack"
    /\ LoopCondition(i, j)
    /\ UnchangedBranch(baseWords, updatedWords, i, j, ignoreCaseOf(options))
    /\ changes' = unshift(changes, UnchangedChange(baseWords, i, j))
    /\ i' = i - 1
    /\ j' = j - 1
    /\ UNCHANGED <<baseText, updatedText, options, pc, baseWords, updatedWords,
                   lcs, result, callVars, renderVars>>

\* index.ts:119-126
BacktrackRemoved ==
    /\ pc = "backtrack"
    /\ LoopCondition(i, j)
    /\ ~UnchangedBranch(baseWords, updatedWords, i, j, ignoreCaseOf(options))
    /\ RemovedBranch(lcs, i, j)
    /\ changes' = unshift(changes, RemovedChange(baseWords, i))
    /\ i' = i - 1
    /\ UNCHANGED <<baseText, updatedText, options, pc, baseWords, updatedWords,
                   lcs, j, result, callVars, renderVars>>

\* index.ts:127-135
BacktrackAdded ==
    /\ pc = "backtrack"
    /\ LoopCondition(i, j)
    /\ ~UnchangedBranch(baseWords, updatedWords, i, j, ignoreCaseOf(options))
    /\ ~RemovedBranch(lcs, i, j)
    /\ changes' = unshift(changes, AddedChange(updatedWords, j))
    /\ j' = j - 1
    /\ UNCHANGED <<baseText, updatedText, options, pc, baseWords, updatedWords,
                   lcs, i, result, callVars, renderVars>>

\* index.ts:138 and 53-67
ReturnResult ==
    /\ pc = "backtrack"
    /\ ~LoopCondition(i, j)
    /\ fn \in {"compareTexts", "visualizeDiff"}
    /\ result' = ExtractPositions(changes, EmptyResult)
    /\ pc' = IF fn = "visualizeDiff" THEN "visualize" ELSE "done"
    /\ UNCHANGED <<baseText, updatedText, options, baseWords, updatedWords,
                   lcs, i, j, changes, callVars, renderVars>>

Next ==
    \/ TokenizeTexts
    \/ FillTable
    \/ BacktrackUnchanged
    \/ BacktrackRemoved
    \/ BacktrackAdded
    \/ ReturnResult

\* Calls on texts written word by word.
Spec == Init /\ [][Next]_vars

\* Calls on raw texts, white space anywhere.
SpecText == InitText /\ [][Next]_vars

\* Longer texts over two words that differ in case only.
OpWordSet == {<<"a">>, <<"A">>}

MaxOpWords == 4

OpTexts == {Join(ws) : ws \in SeqsUpTo(OpWordSet, MaxOpWords)}

InitOps == InitWith(OpTexts)

\* Calls of compareTexts on the longer texts.
SpecOps == InitOps /\ [][Next]_vars

Done == pc = "done"

\* The step-by-step call returns what the function computes.
StepsAgree == Done => result = compareTexts(baseText, updatedText, options)

(***************************************************************************)
(* visualizeDiff (index.ts:148-181).  The string it builds is a sequence   *)
(* of characters.                                                          *)
(***************************************************************************)
\* "Base text (- = removed):\n"
BaseHeader ==
    <<"B", "a", "s", "e", " ", "t", "e", "x", "t", " ", "(", "-", " ", "=",
      " ", "r", "e", "m", "o", "v", "e", "d", ")", ":", "\n">>

\* "\n\nUpdated text (+ = added):\n"
UpdatedHeader ==
    <<"\n", "\n", "U", "p", "d", "a", "t", "e", "d", " ", "t", "e", "x",
      "t", " ", "(", "+", " ", "=", " ", "a", "d", "d", "e", "d", ")", ":",
      "\n">>

\* `[-${word}] ` for a removed word, `[+${word}] ` for an added one.
Marked(sign, word) == <<"[", sign>> \o word \o <<"]", " ">>

\* `${word} `
Unmarked(word) == word \o <<" ">>

\* positions.includes(index)
includes(positions, index) ==
    \E k \in 1..Len(positions) : positions[k] = index

\* Every word is written with the marker.
AppendWord_MarkAll(acc, word, index, positions, sign) ==
    acc \o Marked(sign, word)

\* One pass of the callback of words.forEach: positions.includes(index)
\* decides between the two templates.  index is zero-based.
AppendWord(acc, word, index, positions, sign) ==
    IF includes(positions, index)
    THEN acc \o Marked(sign, word)
    ELSE acc \o Unmarked(word)

RECURSIVE AppendWords(_, _, _, _, _)
\* words.forEach from index k on.
AppendWords(acc, words, k, positions, sign) ==
    IF k >= Len(words) THEN acc
    ELSE AppendWords(AppendWord(acc, words[k + 1], k, positions, sign),
                     words, k + 1, positions, sign)

\* The body of visualizeDiff after the call of compareTexts.
visualizeDiff(diff, bText, uText) ==
    LET bw == Tokenize(bText)
        uw == Tokenize(uText)
        afterBase == AppendWords(BaseHeader, bw, 0,
                                 diff.removedPositions, "-")
    IN  AppendWords(afterBase \o UpdatedHeader, uw, 0,
                    diff.addedPositions, "+")

\* visualizeDiff(baseText, updatedText, options)
InitVisualize ==
    /\ InitCall(WordTexts)
    /\ fn = "visualizeDiff"
    /\ document = "undefined"
    /\ htmlOptions = NoHtmlOptions

\* compareTexts or visualizeDiff on raw texts.
InitCalls ==
    /\ InitCall(RawTexts)
    /\ fn \in {"compareTexts", "visualizeDiff"}
    /\ document = "undefined"
    /\ htmlOptions = NoHtmlOptions

\* index.ts:150-180, once compareTexts has returned.
Visualize ==
    /\ pc = "visualize"
    /\ visualization' = visualizeDiff(result, baseText, updatedText)
    /\ pc' = "done"
    /\ UNCHANGED <<baseText, updatedText, options, baseWords, updatedWords,
                   lcs, i, j, changes, result, callVars, container, html,
                   error>>

NextVisualize ==
    \/ TokenizeTexts
    \/ FillTable
    \/ BacktrackUnchanged
    \/ BacktrackRemoved
    \/ BacktrackAdded
    \/ ReturnResult
    \/ Visualize

\* Calls of visualizeDiff on texts written word by word.
SpecVisualize == InitVisualize /\ [][NextVisualize]_vars

\* Calls of compareTexts and of visualizeDiff on raw texts.
SpecCalls == InitCalls /\ [][NextVisualize]_vars

(***************************************************************************)
(* The document the tests install (src/unnamed/part_000:330-385): nodes    *)
(* are records, innerHTML serialises the child nodes of an element.        *)
(***************************************************************************)
\* htmlEscapeMap
EscapeChar_AmpersandKept(c) ==
    IF c = "<" THEN <<"&", "l", "t", ";">>
    ELSE IF c = ">" THEN <<"&", "g", "t", ";">>
    ELSE IF c = "\"" THEN <<"&", "q", "u", "o", "t", ";">>
    ELSE IF c = "'" THEN <<"&", "#", "3", "9", ";">>
    ELSE <<c>>

EscapeChar(c) ==
    IF c = "&" THEN <<"&", "a", "m", "p", ";">>
    ELSE IF c = "<" THEN <<"&", "l", "t", ";">>
    ELSE IF c = ">" THEN <<"&", "g", "t", ";">>
    ELSE IF c = "\"" THEN <<"&", "q", "u", "o", "t", ";">>
    ELSE IF c = "'" THEN <<"&", "#", "3", "9", ";">>
    ELSE <<c>>

RECURSIVE escapeHtml(_)
\* text.replace(/[&<>"']/g, (char) => htmlEscapeMap[char])
escapeHtml(text) ==
    IF text = <<>> THEN <<>>
    ELSE EscapeChar(Head(text)) \o escapeHtml(Tail(text))

\* document.createTextNode(text)
createTextNode(text) == [nodeType |-> 3, textContent |-> text]

\* document.createElement(tagName): no class, no style, no text yet.  An
\* empty sequence stands for "" and for a style property that is not set;
\* the serialiser below reads both by their truthiness only.
createElement(tagName) ==
    [nodeType |-> 1, tagName |-> toLowerCase(tagName), className |-> <<>>,
     style |-> [backgroundColor |-> <<>>, textDecoration |-> <<>>],
     textContent |-> <<>>]

\* styles.join("; ") of the declarations of a child element
StyleDeclarations(child) ==
    LET background ==
            IF child.style.backgroundColor # <<>>
            THEN <<<<"b", "a", "c", "k", "g", "r", "o", "u", "n", "d", "-", "c", "o", "l",
      "o", "r", ":", " ">> \o child.style.backgroundColor>>
            ELSE <<>>
        decoration ==
            IF child.style.textDecoration # <<>>
            THEN <<<<"t", "e", "x", "t", "-", "d", "e", "c", "o", "r", "a", "t", "i", "o",
      "n", ":", " ">> \o child.style.textDecoration>>
            ELSE <<>>
        styles == background \o decoration
    IN  IF Len(styles) = 2 THEN styles[1] \o <<";", " ">> \o styles[2]
        ELSE IF Len(styles) = 1 THEN styles[1]
        ELSE <<>>

\* What innerHTML writes for one child node.
SerializeChild(child) ==
    IF child.nodeType = 3 THEN escapeHtml(child.textContent)
    ELSE LET styles == StyleDeclarations(child)
             styleAttr == IF styles # <<>>
                          THEN <<" ", "s", "t", "y", "l", "e", "=", "\"">> \o styles \o <<"\"">>
                          ELSE <<>>
             classAttr == IF child.className # <<>>
                          THEN <<" ", "c", "l", "a", "s", "s", "=", "\"">> \o child.className \o <<"\"">>
                          ELSE <<>>
         IN  <<"<">> \o child.tagName \o classAttr \o styleAttr \o <<">">>
             \o escapeHtml(child.textContent)
             \o <<"<", "/">> \o child.tagName \o <<">">>

RECURSIVE innerHTML(_)
\* get innerHTML(): the serialised children, joined by "".
innerHTML(childNodes) ==
    IF childNodes = <<>> THEN <<>>
    ELSE SerializeChild(Head(childNodes)) \o innerHTML(Tail(childNodes))

(***************************************************************************)
(* formatDiffAsHtml (index.ts:191-286).  A WordStyleOptions object holds   *)
(* each of its four optional fields as a set: empty when the field is      *)
(* absent, else holding its value.                                         *)
(***************************************************************************)
StyleFields ==
    {"applyHighlighting", "highlightColor", "className", "applyLineThrough"}

\* typeof document === "undefined"
documentUndefined_Never(doc) == FALSE

documentUndefined(doc) == doc = "undefined"

\* The message of the Error thrown at index.ts:198-200.
EnvironmentError ==
    "formatDiffAsHtml requires a browser environment with document API. This function is not available in Node.js."

\* const compareOptions = { ignoreCase: options?.ignoreCase }
compareOptionsOf(opts) ==
    [defined |-> TRUE,
     ignoreCase |-> IF opts.defined THEN opts.ignoreCase ELSE "undefined"]

defaultAddedStyle ==
    [applyHighlighting |-> TRUE,
     highlightColor |-> <<"#", "9", "0", "E", "E", "9", "0">>,
     className |-> <<"d", "i", "f", "f", "-", "a", "d", "d", "e", "d">>,
     applyLineThrough |-> FALSE]

defaultRemovedStyle ==
    [applyHighlighting |-> TRUE,
     highlightColor |-> <<"#", "F", "F", "B", "6", "C", "1">>,
     className |-> <<"d", "i", "f", "f", "-", "r", "e", "m", "o", "v", "e", "d">>,
     applyLineThrough |-> TRUE]

\* { ...defaults, ...supplied }: `supplied` is the set holding the style
\* object of the options, empty when there is none.
SpreadStyle_IgnoreSupplied(defaults, supplied) == defaults

SpreadStyle(defaults, supplied) ==
    IF supplied = {} THEN defaults
    ELSE LET given == CHOOSE s \in supplied : TRUE
         IN  [f \in StyleFields |->
                 IF given[f] = {} THEN defaults[f]
                 ELSE CHOOSE v \in given[f] : TRUE]

\* The characters /[^a-zA-Z0-9\-_ ]/ does not match.
ClassNameChars ==
    {"a", "b", "c", "d", "e", "f", "g", "h", "i", "j", "k", "l", "m", "n",
     "o", "p", "q", "r", "s", "t", "u", "v", "w", "x", "y", "z", "A", "B",
     "C", "D", "E", "F", "G", "H", "I", "J", "K", "L", "M", "N", "O", "P",
     "Q", "R", "S", "T", "U", "V", "W", "X", "Y", "Z", "0", "1", "2", "3",
     "4", "5", "6", "7", "8", "9", "-", "_", " "}

sanitizeClassName_KeepAll(className) == className

\* className.replace(/[^a-zA-Z0-9\-_ ]/g, "")
sanitizeClassName(className) ==
    SelectSeq(className, LAMBDA c : c \in ClassNameChars)

\* The colour is applied whenever one is set.
createStyledSpan_AlwaysHighlight(word, changeType, addedStyle, removedStyle) ==
    LET styleOpts == IF changeType = "added" THEN addedStyle
                     ELSE removedStyle
        span == createElement(<<"s", "p", "a", "n">>)
    IN  [span EXCEPT
            !.className =
                IF styleOpts.className # <<>>
                THEN sanitizeClassName(styleOpts.className) ELSE @,
            !.style.backgroundColor =
                IF styleOpts.highlightColor # <<>>
                THEN styleOpts.highlightColor ELSE @,
            !.style.textDecoration =
                IF styleOpts.applyLineThrough
                THEN <<"l", "i", "n", "e", "-", "t", "h", "r", "o", "u", "g", "h">> ELSE @,
            !.textContent = word]

\* createStyledSpan(word, changeType) with the two merged styles in scope.
createStyledSpan(word, changeType, addedStyle, removedStyle) ==
    LET styleOpts == IF changeType = "added" THEN addedStyle
                     ELSE removedStyle
        span == createElement(<<"s", "p", "a", "n">>)
    IN  [span EXCEPT
            !.className =
                IF styleOpts.className # <<>>
                THEN sanitizeClassName(styleOpts.className) ELSE @,
            !.style.backgroundColor =
                IF styleOpts.applyHighlighting
                   /\ styleOpts.highlightColor # <<>>
                THEN styleOpts.highlightColor ELSE @,
            !.style.textDecoration =
                IF styleOpts.applyLineThrough
                THEN <<"l", "i", "n", "e", "-", "t", "h", "r", "o", "u", "g", "h">> ELSE @,
            !.textContent = word]

\* Every change gets a styled span.
AppendChange_SpanForAll(nodes, change, index, addedStyle, removedStyle) ==
    LET separated == IF index > 0
                     THEN Append(nodes, createTextNode(<<" ">>))
                     ELSE nodes
    IN  Append(separated,
               createStyledSpan(change.word,
                                IF change.type = "removed" THEN "removed"
                                ELSE "added",
                                addedStyle, removedStyle))

\* The separating space is appended after every segment.
AppendChange_SpaceAfterEach(nodes, change, index, addedStyle, removedStyle) ==
    LET segment == IF change.type = "unchanged"
                   THEN createTextNode(change.word)
                   ELSE createStyledSpan(change.word, change.type,
                                         addedStyle, removedStyle)
    IN  Append(Append(nodes, segment), createTextNode(<<" ">>))

\* One pass of the callback of changes.forEach (index.ts:271-283): what
\* container.childNodes holds afterwards.
AppendChange(nodes, change, index, addedStyle, removedStyle) ==
    LET separated == IF index > 0
                     THEN Append(nodes, createTextNode(<<" ">>))
                     ELSE nodes
    IN  IF change.type = "removed"
        THEN Append(separated,
                    createStyledSpan(change.word, "removed",
                                     addedStyle, removedStyle))
        ELSE IF change.type = "added"
        THEN Append(separated,
                    createStyledSpan(change.word, "added",
                                     addedStyle, removedStyle))
        ELSE Append(separated, createTextNode(change.word))

RECURSIVE AppendChanges(_, _, _, _, _)
\* changes.forEach from index k on.
AppendChanges(nodes, chs, k, addedStyle, removedStyle) ==
    IF k >= Len(chs) THEN nodes
    ELSE AppendChanges(AppendChange(nodes, chs[k + 1], k,
                                    addedStyle, removedStyle),
                       chs, k + 1, addedStyle, removedStyle)

\* The child nodes of the container after index.ts:218-283.
BuildContainer(chs, opts) ==
    LET addedStyle == SpreadStyle(defaultAddedStyle, opts.addedStyle)
        removedStyle == SpreadStyle(defaultRemovedStyle, opts.removedStyle)
    IN  AppendChanges(<<>>, chs, 0, addedStyle, removedStyle)

\* index.ts:196-201
ThrowWithoutDocument ==
    /\ pc = "call"
    /\ fn = "formatDiffAsHtml"
    /\ documentUndefined(document)
    /\ error' = EnvironmentError
    /\ pc' = "thrown"
    /\ UNCHANGED <<baseText, updatedText, options, baseWords, updatedWords,
                   lcs, i, j, changes, result, callVars, visualization,
                   container, html>>

\* index.ts:196 (the check passes) and 203-214
TokenizeHtml ==
    /\ pc = "call"
    /\ fn = "formatDiffAsHtml"
    /\ ~documentUndefined(document)
    /\ baseWords' = Tokenize(baseText)
    /\ updatedWords' = Tokenize(updatedText)
    /\ options' = compareOptionsOf(htmlOptions)
    /\ pc' = "fill"
    /\ UNCHANGED <<baseText, updatedText, lcs, i, j, changes, result,
                   callVars, renderVars>>

\* The merged styles are written into the style objects of the caller.
RenderHtml_MergeInPlace ==
    /\ pc = "backtrack"
    /\ ~LoopCondition(i, j)
    /\ fn = "formatDiffAsHtml"
    /\ document # "undefined"
    /\ container' = BuildContainer(changes, htmlOptions)
    /\ html' = innerHTML(container')
    /\ pc' = "done"
    /\ htmlOptions' =
           LET InPlace(defaults, supplied) ==
                   {[f \in StyleFields |->
                        {SpreadStyle(defaults, supplied)[f]}]}
           IN  [htmlOptions EXCEPT
                   !.addedStyle = InPlace(defaultAddedStyle, @),
                   !.removedStyle = InPlace(defaultRemovedStyle, @)]
    /\ UNCHANGED <<baseText, updatedText, options, baseWords, updatedWords,
                   lcs, i, j, changes, result, fn, document, visualization,
                   error>>

\* index.ts:218-285, once computeLCS has returned.  Without a document the
\* first document.createElement is a ReferenceError.
RenderHtml ==
    /\ pc = "backtrack"
    /\ ~LoopCondition(i, j)
    /\ fn = "formatDiffAsHtml"
    /\ IF document = "undefined"
       THEN /\ error' = "ReferenceError: document is not defined"
            /\ pc' = "thrown"
            /\ UNCHANGED <<container, html>>
       ELSE /\ container' = BuildContainer(changes, htmlOptions)
            /\ html' = innerHTML(container')
            /\ pc' = "done"
            /\ UNCHANGED error
    /\ UNCHANGED <<baseText, updatedText, options, baseWords, updatedWords,
                   lcs, i, j, changes, result, callVars, visualization>>

NextHtml ==
    \/ ThrowWithoutDocument
    \/ TokenizeHtml
    \/ FillTable
    \/ BacktrackUnchanged
    \/ BacktrackRemoved
    \/ BacktrackAdded
    \/ RenderHtml

\* Words of the calls of formatDiffAsHtml: "a&lt;" in both cases, and a
\* word made of the characters < > " '.
HtmlWordSet ==
    {<<"a", "&", "l", "t", ";">>,
     <<"A", "&", "l", "t", ";">>,
     <<"<", ">", "\"", "'">>}

MaxHtmlWords == 2

\* The words written with a space before, two spaces between and a space
\* after them.
RECURSIVE Padded(_)
Padded(words) ==
    IF words = <<>> THEN <<" ">>
    ELSE <<" ">> \o Head(words) \o Padded(Tail(words))

HtmlWordLists == SeqsUpTo(HtmlWordSet, MaxHtmlWords)

HtmlBaseTexts ==
    {Join(ws) : ws \in HtmlWordLists} \cup {Padded(ws) : ws \in HtmlWordLists}

HtmlUpdatedTexts == {Join(ws) : ws \in HtmlWordLists}

\* Options objects without style fields.
HtmlOptionSet ==
    {NoHtmlOptions,
     [NoHtmlOptions EXCEPT !.defined = TRUE, !.ignoreCase = "true"],
     [NoHtmlOptions EXCEPT !.defined = TRUE, !.showAdded = "false"],
     [NoHtmlOptions EXCEPT !.defined = TRUE, !.showRemoved = "false"]}

\* formatDiffAsHtml(baseText, updatedText, options), with the document of
\* the tests installed or with no document at all.
InitFormat(baseTexts, updatedTexts, optionSet) ==
    /\ baseText \in baseTexts
    /\ updatedText \in updatedTexts
    /\ htmlOptions \in optionSet
    /\ document \in {"undefined", "installed"}
    /\ fn = "formatDiffAsHtml"
    /\ options = NoOptions
    /\ pc = "call"
    /\ baseWords = <<>>
    /\ updatedWords = <<>>
    /\ lcs = <<>>
    /\ i = 0
    /\ j = 0
    /\ changes = <<>>
    /\ result = EmptyResult
    /\ NothingRendered

InitHtml == InitFormat(HtmlBaseTexts, HtmlUpdatedTexts, HtmlOptionSet)

\* Calls of formatDiffAsHtml on texts with markup characters.
SpecHtml == InitHtml /\ [][NextHtml]_vars

\* Style objects of the calls: every field absent or given, a class name
\* given as "", as characters of every sort, or as characters that are all
\* filtered out.
StyleChoices ==
    [applyHighlighting : {{}, {TRUE}, {FALSE}},
     highlightColor : {{}, {<<>>}, {<<"r", "e", "d">>}},
     className : {{}, {<<>>}, {<<"x", "\"", ">", " ", "y", "-", "_", "1", "<">>},
                  {<<"\"", ">">>}},
     applyLineThrough : {{}, {TRUE}, {FALSE}}]

AnyStyle == {{}} \cup {{style} : style \in StyleChoices}

FewStyles ==
    {{},
     {[applyHighlighting |-> {FALSE}, highlightColor |-> {},
       className |-> {<<"o">>}, applyLineThrough |-> {FALSE}]},
     {[applyHighlighting |-> {}, highlightColor |-> {<<"b", "l", "u", "e">>},
       className |-> {}, applyLineThrough |-> {TRUE}]}}

StyleOptionSet ==
    {[NoHtmlOptions EXCEPT !.defined = TRUE, !.addedStyle = pair[1],
                           !.removedStyle = pair[2]] :
         pair \in (AnyStyle \X FewStyles) \cup (FewStyles \X AnyStyle)}

\* The texts of the styled calls: nothing, or one word.
StyleTexts == {<<>>, <<"a">>, <<"b">>}

InitStyle == InitFormat(StyleTexts, StyleTexts, StyleOptionSet)

\* Calls of formatDiffAsHtml with style options.
SpecStyle == InitStyle /\ [][NextHtml]_vars

\* The texts and options of the calls of a session.
SessionTexts == {<<"a">>, <<"a", " ", "A">>}

SessionOptionSet == {NoOptions, IgnoreCaseOptions}

SessionHtmlOptionSet ==
    {NoHtmlOptions,
     [NoHtmlOptions EXCEPT !.defined = TRUE, !.ignoreCase = "true"]}
    \cup {[NoHtmlOptions EXCEPT !.defined = TRUE, !.addedStyle = style,
                                !.removedStyle = style] :
              style \in FewStyles \ {{}}}

\* The arguments of a call, and whether a document is there when it is
\* made.  Primed, the same for the call after the current one.
CallArguments(f, base, updated, opts, htmlOpts, doc) ==
    /\ f \in {"compareTexts", "visualizeDiff", "formatDiffAsHtml"}
    /\ base \in SessionTexts
    /\ updated \in SessionTexts
    /\ doc \in {"undefined", "installed"}
    /\ IF f = "formatDiffAsHtml"
       THEN opts = NoOptions /\ htmlOpts \in SessionHtmlOptionSet
       ELSE opts \in SessionOptionSet /\ htmlOpts = NoHtmlOptions

\* The first call of a session.
InitSession ==
    /\ CallArguments(fn, baseText, updatedText, options, htmlOptions,
                     document)
    /\ pc = "call"
    /\ baseWords = <<>>
    /\ updatedWords = <<>>
    /\ lcs = <<>>
    /\ i = 0
    /\ j = 0
    /\ changes = <<>>
    /\ result = EmptyResult
    /\ NothingRendered

\* A call has returned or thrown and the caller makes the next one.  The
\* call starts at the top of the function called; what the call before
\* computed is left where it is.
NextCall ==
    /\ pc \in {"done", "thrown"}
    /\ CallArguments(fn', baseText', updatedText', options', htmlOptions',
                     document')
    /\ pc' = "call"
    /\ UNCHANGED <<baseWords, updatedWords, lcs, i, j, changes, result,
                   renderVars>>

NextSession ==
    \/ TokenizeTexts
    \/ ThrowWithoutDocument
    \/ TokenizeHtml
    \/ FillTable
    \/ BacktrackUnchanged
    \/ BacktrackRemoved
    \/ BacktrackAdded
    \/ ReturnResult
    \/ Visualize
    \/ RenderHtml
    \/ NextCall

\* Calls of the three functions, one after the other.
SpecSession == InitSession /\ [][NextSession]_vars

(***************************************************************************)
(* Notions the properties are stated with, defined without the operators   *)
(* of the program above.                                                   *)
(***************************************************************************)
m == Len(baseWords)
n == Len(updatedWords)

Range(seq) == {seq[k] : k \in 1..Len(seq)}

\* The call asks for case-insensitive comparison.
IgnoreCaseChosen == options.defined /\ options.ignoreCase = "true"

SameLettersIgnoringCase(w1, w2) ==
    /\ Len(w1) = Len(w2)
    /\ \A k \in 1..Len(w1) : LowerChar(w1[k]) = LowerChar(w2[k])

\* Equality of two tokens under the comparison the call chose.
ChosenEqual(w1, w2) ==
    IF IgnoreCaseChosen THEN SameLettersIgnoringCase(w1, w2) ELSE w1 = w2

\* The elements of seq at the positions in S, in order.
Pick(seq, S) ==
    LET F[k \in 0..Len(seq)] ==
            IF k = 0 THEN <<>>
            ELSE IF k \in S THEN Append(F[k - 1], seq[k]) ELSE F[k - 1]
    IN  F[Len(seq)]

\* s can be obtained from t by deleting tokens (up to ChosenEqual).
RECURSIVE IsSubsequence(_, _)
IsSubsequence(s, t) ==
    IF s = <<>> THEN TRUE
    ELSE IF t = <<>> THEN FALSE
    ELSE IF ChosenEqual(Head(s), Head(t)) THEN IsSubsequence(Tail(s), Tail(t))
    ELSE IsSubsequence(s, Tail(t))

\* Length of a longest common subsequence of the two token sequences: the
\* largest number of base tokens that, kept in order, are a subsequence of
\* the updated tokens.
LCSLength ==
    LET common == {S \in SUBSET (1..m) : IsSubsequence(Pick(baseWords, S),
                                                       updatedWords)}
    IN  CHOOSE l \in 0..m :
            /\ \E S \in common : Cardinality(S) = l
            /\ \A S \in common : Cardinality(S) <= l

\* Positions in `changes` of the ops of the given types.
OpsOf(types) == {p \in 1..Len(changes) : changes[p].type \in types}

NumUnchanged == Cardinality(OpsOf({"unchanged"}))

StrictlyIncreasing(seq) ==
    \A k \in 1..(Len(seq) - 1) : seq[k] < seq[k + 1]

\* <<lo, lo + 1, ..., hi>>
Interval(lo, hi) == [k \in 1..(hi - lo + 1) |-> lo + k - 1]

(***************************************************************************)
(* C1  The edit script is minimal: the number of Unchanged ops is the      *)
(* length of a longest common subsequence of the two token sequences under *)
(* the chosen equality, so compareTexts reports m - LCS removed positions  *)
(* and n - LCS added positions.                                            *)
(***************************************************************************)
C1_MinimalEditScript ==
    Done =>
        /\ NumUnchanged = LCSLength
        /\ Len(result.removedPositions) = m - LCSLength
        /\ Len(result.addedPositions) = n - LCSLength

C1_Witness ==
    /\ Done
    /\ IgnoreCaseChosen
    /\ m = 3 /\ n = 3
    /\ LCSLength = 2
    /\ NumUnchanged = 2
    /\ \E p \in OpsOf({"unchanged"}) :
           baseWords[changes[p].baseIndex + 1]
               # updatedWords[changes[p].updatedIndex + 1]

(***************************************************************************)
(* C2  In the op sequence every base token index in [0, m) occurs in       *)
(* exactly one Removed or Unchanged op and every updated token index in    *)
(* [0, n) in exactly one Added or Unchanged op, so                         *)
(* |removedPositions| + |unchanged| = m and |addedPositions| + |unchanged| *)
(* = n.                                                                    *)
(***************************************************************************)
C2_EveryIndexInExactlyOneOp ==
    Done =>
        /\ \A k \in 0..(m - 1) :
               Cardinality({p \in OpsOf({"removed", "unchanged"}) :
                                changes[p].baseIndex = k}) = 1
        /\ \A k \in 0..(n - 1) :
               Cardinality({p \in OpsOf({"added", "unchanged"}) :
                                changes[p].updatedIndex = k}) = 1
        /\ \A p \in OpsOf({"removed", "unchanged"}) :
               changes[p].baseIndex \in 0..(m - 1)
        /\ \A p \in OpsOf({"added", "unchanged"}) :
               changes[p].updatedIndex \in 0..(n - 1)
        /\ Len(result.removedPositions) + NumUnchanged = m
        /\ Len(result.addedPositions) + NumUnchanged = n

C2_Witness ==
    /\ Done
    /\ m = 3 /\ n = 2
    /\ OpsOf({"removed"}) # {}
    /\ OpsOf({"added"}) # {}
    /\ OpsOf({"unchanged"}) # {}

(***************************************************************************)
(* C3  removedPositions is strictly increasing with every element in       *)
(* [0, m), and addedPositions is strictly increasing with every element in *)
(* [0, n).                                                                 *)
(***************************************************************************)
C3_PositionsStrictlyIncreasing ==
    Done =>
        /\ StrictlyIncreasing(result.removedPositions)
        /\ Range(result.removedPositions) \subseteq 0..(m - 1)
        /\ StrictlyIncreasing(result.addedPositions)
        /\ Range(result.addedPositions) \subseteq 0..(n - 1)

C3_Witness ==
    /\ Done
    /\ Len(result.removedPositions) >= 2
    /\ Len(result.addedPositions) >= 2
    /\ NumUnchanged >= 1

(***************************************************************************)
(* C4  For every text X, the empty and the all-whitespace ones included,   *)
(* and either ignoreCase setting, compareTexts(X, X) returns               *)
(* removedPositions = [] and addedPositions = [].                          *)
(***************************************************************************)
C4_IdenticalTextsNoDiff ==
    (Done /\ baseText = updatedText) => result = EmptyResult

C4_Witness ==
    /\ Done
    /\ baseText = updatedText
    /\ IgnoreCaseChosen
    /\ m = 2
    /\ baseWords[1] # baseWords[2]
    /\ result = EmptyResult

(***************************************************************************)
(* C5  When the updated tokens are a subsequence of the base tokens (words *)
(* were only deleted), addedPositions = [] and removedPositions has length *)
(* m - n; when the base tokens are a subsequence of the updated tokens     *)
(* (words were only inserted), removedPositions = [] and addedPositions    *)
(* has length n - m.                                                       *)
(***************************************************************************)
C5_OnlyDeletedOrOnlyInserted ==
    Done =>
        /\ IsSubsequence(updatedWords, baseWords) =>
               /\ result.addedPositions = <<>>
               /\ Len(result.removedPositions) = m - n
        /\ IsSubsequence(baseWords, updatedWords) =>
               /\ result.removedPositions = <<>>
               /\ Len(result.addedPositions) = n - m

\* A word inserted in the middle.
C5_Witness ==
    /\ Done
    /\ m = 2 /\ n = 3
    /\ IsSubsequence(baseWords, updatedWords)
    /\ result.removedPositions = <<>>
    /\ result.addedPositions = <<1>>

(***************************************************************************)
(* C6  Every base token equal, under the chosen comparison, to no updated  *)
(* token has its index in removedPositions, and every updated token equal  *)
(* to no base token has its index in addedPositions; when one text has no  *)
(* tokens, or the texts share no token, removedPositions = [0..m-1] and    *)
(* addedPositions = [0..n-1].                                              *)
(***************************************************************************)
NoSharedToken ==
    \A k \in 1..m : \A l \in 1..n : ~ChosenEqual(baseWords[k], updatedWords[l])

C6_UnmatchedTokensReported ==
    Done =>
        /\ \A k \in 1..m :
               (\A l \in 1..n : ~ChosenEqual(baseWords[k], updatedWords[l]))
                   => (k - 1) \in Range(result.removedPositions)
        /\ \A l \in 1..n :
               (\A k \in 1..m : ~ChosenEqual(baseWords[k], updatedWords[l]))
                   => (l - 1) \in Range(result.addedPositions)
        /\ (m = 0 \/ n = 0 \/ NoSharedToken) =>
               /\ result.removedPositions = Interval(0, m - 1)
               /\ result.addedPositions = Interval(0, n - 1)

C6_Witness ==
    /\ Done
    /\ m = 2 /\ n = 3
    /\ NoSharedToken
    /\ result.removedPositions = <<0, 1>>
    /\ result.addedPositions = <<0, 1, 2>>

(***************************************************************************)
(* C7  With ignoreCase: true, when the two token sequences have the same   *)
(* length and the tokens at each index are equal after lower-casing,       *)
(* compareTexts returns removedPositions = [] and addedPositions = [].     *)
(***************************************************************************)
SameUpToCase ==
    /\ m = n
    /\ \A k \in 1..m : SameLettersIgnoringCase(baseWords[k], updatedWords[k])

C7_IgnoreCaseMatchesAcrossCase ==
    (Done /\ IgnoreCaseChosen /\ SameUpToCase) => result = EmptyResult

C7_Witness ==
    /\ Done
    /\ IgnoreCaseChosen
    /\ SameUpToCase
    /\ m = 3
    /\ baseWords[1] # updatedWords[1]
    /\ baseWords[3] # updatedWords[3]
    /\ result = EmptyResult

(***************************************************************************)
(* C8  compareTexts called with no options, with an options object lacking *)
(* ignoreCase, and with ignoreCase: false return the same result, and      *)
(* under these settings two tokens match only when they are identical      *)
(* character for character.                                                *)
(***************************************************************************)
CaseSensitiveSettings == {NoOptions, EmptyOptions, CaseSensitiveOptions}

\* The three settings give the result of this call, and every Unchanged op
\* pairs two identical tokens.
CaseSensitiveByDefault ==
    /\ \A o \in CaseSensitiveSettings :
           compareTexts(baseText, updatedText, o) = result
    /\ \A p \in OpsOf({"unchanged"}) :
           baseWords[changes[p].baseIndex + 1]
               = updatedWords[changes[p].updatedIndex + 1]

\* Token k of the base text and token k of the updated text differ only in
\* letter case.
DiffersOnlyInCase(k) ==
    /\ baseWords[k] # updatedWords[k]
    /\ SameLettersIgnoringCase(baseWords[k], updatedWords[k])

\* C8 as stated: ..., so a token that differs from its counterpart only in
\* letter case is reported as removed and added.
\* Checked where the counterpart of a token is beyond doubt: the two texts
\* have the same number of tokens and are the same text up to letter case, so
\* the counterpart of token k is token k.
C8_AsStated ==
    (Done /\ options \in CaseSensitiveSettings) =>
        /\ CaseSensitiveByDefault
        /\ SameUpToCase =>
               \A k \in 1..m :
                   DiffersOnlyInCase(k) =>
                       /\ (k - 1) \in Range(result.removedPositions)
                       /\ (k - 1) \in Range(result.addedPositions)

\* C8 as amended: ..., so a token identical to no token of the other text
\* is reported as removed (a base token) or added (an updated token), also
\* when the other text holds a token that differs from it only in letter
\* case.
C8_CaseSensitiveByDefault ==
    (Done /\ options \in CaseSensitiveSettings) =>
        /\ CaseSensitiveByDefault
        /\ \A k \in 1..m :
               (\A l \in 1..n : baseWords[k] # updatedWords[l])
                   => (k - 1) \in Range(result.removedPositions)
        /\ \A l \in 1..n :
               (\A k \in 1..m : baseWords[k] # updatedWords[l])
                   => (l - 1) \in Range(result.addedPositions)

C8_Witness ==
    /\ Done
    /\ options = NoOptions
    /\ m = 2 /\ n = 2
    /\ DiffersOnlyInCase(1)
    /\ baseWords[2] = updatedWords[2]
    /\ result = [removedPositions |-> <<0>>, addedPositions |-> <<0>>]

(***************************************************************************)
(* C9  The text carried by every op is an original token, never a          *)
(* case-folded copy: a Removed or Unchanged op carries the base token at   *)
(* its baseIndex and an Added op carries the updated token at its          *)
(* updatedIndex, also when ignoreCase is true and the matched tokens       *)
(* differ in case.                                                         *)
(***************************************************************************)
C9_OpsCarryOriginalTokens ==
    /\ \A p \in OpsOf({"removed", "unchanged"}) :
           changes[p].word = baseWords[changes[p].baseIndex + 1]
    /\ \A p \in OpsOf({"added"}) :
           changes[p].word = updatedWords[changes[p].updatedIndex + 1]

\* An upper-case base token matched with its lower-case spelling.
C9_Witness ==
    /\ Done
    /\ IgnoreCaseChosen
    /\ \E p \in OpsOf({"unchanged"}) :
           /\ changes[p].word = baseWords[changes[p].baseIndex + 1]
           /\ changes[p].word # updatedWords[changes[p].updatedIndex + 1]
           /\ changes[p].word # toLowerCase(changes[p].word)

(***************************************************************************)
(* C10  Tokenization trims the text and splits it on maximal runs of white *)
(* space: no token is empty or contains white space, a text that is empty  *)
(* or all white space has no tokens, and two inputs that differ only in    *)
(* leading, trailing or repeated white space give the same result.         *)
(***************************************************************************)
\* The maximal runs of non-whitespace characters of a text, in order.
MaximalRuns(text) ==
    LET solid(k) == ~IsWhitespace(text[k])
        starts == {k \in 1..Len(text) :
                       solid(k) /\ (k = 1 \/ ~solid(k - 1))}
        endOf(k) == CHOOSE e \in k..Len(text) :
                        /\ \A x \in k..e : solid(x)
                        /\ (e = Len(text) \/ ~solid(e + 1))
        F[k \in 0..Len(text)] ==
            IF k = 0 THEN <<>>
            ELSE IF k \in starts
                 THEN Append(F[k - 1], SubSeq(text, k, endOf(k)))
                 ELSE F[k - 1]
    IN  F[Len(text)]

RECURSIVE DoubleWhitespace(_)
\* The text with every whitespace character written twice.
DoubleWhitespace(text) ==
    IF text = <<>> THEN <<>>
    ELSE IF IsWhitespace(Head(text))
         THEN <<Head(text), Head(text)>> \o DoubleWhitespace(Tail(text))
         ELSE <<Head(text)>> \o DoubleWhitespace(Tail(text))

\* Texts that differ from `text` only in leading, trailing or repeated
\* white space.
WhitespaceVariants(text) ==
    {<<" ">> \o text, text \o <<" ">>, DoubleWhitespace(text),
     Join(MaximalRuns(text))}

WellFormedTokens(words, text) ==
    /\ words = MaximalRuns(text)
    /\ \A k \in 1..Len(words) :
           /\ Len(words[k]) > 0
           /\ \A x \in 1..Len(words[k]) : ~IsWhitespace(words[k][x])
    /\ (\A x \in 1..Len(text) : IsWhitespace(text[x])) => words = <<>>

C10_TokenizationAndWhitespace ==
    /\ pc # "call" =>
           /\ WellFormedTokens(baseWords, baseText)
           /\ WellFormedTokens(updatedWords, updatedText)
    /\ Done =>
           \A b \in WhitespaceVariants(baseText) :
               \A u \in WhitespaceVariants(updatedText) :
                   compareTexts(b, u, options) = result

\* Two texts of the same words, written with different white space.
C10_Witness ==
    /\ Done
    /\ baseText # updatedText
    /\ baseWords = updatedWords
    /\ m >= 1
    /\ IsWhitespace(baseText[1])
    /\ IsWhitespace(updatedText[Len(updatedText)])
    /\ result = EmptyResult

(***************************************************************************)
(* C11: compareTexts and visualizeDiff return a result and never raise,    *)
(* for any two texts (empty and whitespace-only ones included) and with    *)
(* or without options.  No step of either function can fail: nothing is    *)
(* thrown, every row and word a backtracking step reads exists, the call   *)
(* can always take its next step until it has returned, and what it        *)
(* returns is a pair of position lists (plus, for visualizeDiff, the       *)
(* string that was built).                                                 *)
(***************************************************************************)
\* lcs has a row for every 0..m and a column for every 0..n.
TableComplete ==
    /\ Len(lcs) = m + 1
    /\ \A r \in 1..(m + 1) : Len(lcs[r]) = n + 1

\* The step the loop takes at (i, j) reads only rows and words that exist.
ReadsInRange ==
    /\ i \in 0..m
    /\ j \in 0..n
    /\ i > 0 \/ j > 0

IsPositionList(positions) ==
    /\ DOMAIN positions = 1..Len(positions)
    /\ \A k \in 1..Len(positions) : positions[k] \in Nat

C11_NeverRaises ==
    /\ error = ""
    /\ pc \in {"call", "fill", "backtrack", "visualize", "done"}
    /\ pc = "backtrack" => TableComplete
    /\ (pc = "backtrack" /\ LoopCondition(i, j)) => ReadsInRange
    /\ Done \/ ENABLED NextVisualize
    /\ Done =>
           /\ DOMAIN result = {"removedPositions", "addedPositions"}
           /\ IsPositionList(result.removedPositions)
           /\ IsPositionList(result.addedPositions)
           /\ fn = "visualizeDiff" => Len(visualization) > 0

\* visualizeDiff has returned for a whitespace-only text and an empty one,
\* called with an options object.
C11_Witness ==
    /\ Done
    /\ fn = "visualizeDiff"
    /\ options.defined
    /\ baseText = <<" ", " ">>
    /\ updatedText = <<>>
    /\ Len(visualization) > 0

(***************************************************************************)
(* C12: in the string visualizeDiff returns, the base block holds every    *)
(* base token exactly once and in order, written [-token] exactly when     *)
(* its index is in removedPositions and bare otherwise; the updated block  *)
(* does the same for the updated tokens with [+token] and addedPositions;  *)
(* for identical texts no marker appears.                                  *)
(***************************************************************************)
\* The pieces of a text between its characters of `separators`, in order
\* (empty pieces included).
Pieces(text, separators) ==
    LET cuts == {k \in 1..Len(text) : text[k] \in separators}
        before == {0} \cup cuts
        \* the position right before piece r
        Before(r) == CHOOSE k \in before :
                         Cardinality({x \in before : x < k}) = r - 1
        EndOf(k) == IF \E x \in cuts : x > k
                    THEN (CHOOSE x \in cuts :
                              x > k /\ \A y \in cuts : y > k => x <= y) - 1
                    ELSE Len(text)
    IN  [r \in 1..Cardinality(before) |->
            SubSeq(text, Before(r) + 1, EndOf(Before(r)))]

\* The lines of a text: the pieces between its newline characters.
Lines(text) == Pieces(text, {"\n"})

\* Line 2 of the output is the base block, line 5 the updated block.
BaseBlock == Lines(visualization)[2]
UpdatedBlock == Lines(visualization)[5]

\* How the claim writes token k (one-based) of `words`.
Written(words, k, positions, sign) ==
    IF (k - 1) \in Range(positions)
    THEN <<"[", sign>> \o words[k] \o <<"]">>
    ELSE words[k]

\* The block holds exactly the tokens of `words`, each written as claimed.
BlockShowsTokens(block, words, positions, sign) ==
    LET pieces == MaximalRuns(block)
    IN  /\ Len(pieces) = Len(words)
        /\ \A k \in 1..Len(words) :
               pieces[k] = Written(words, k, positions, sign)

NoMarker(block) == \A k \in 1..Len(block) : block[k] \notin {"[", "]"}

C12_BlocksShowEveryToken ==
    (Done /\ fn = "visualizeDiff") =>
        /\ Len(Lines(visualization)) = 5
        /\ BlockShowsTokens(BaseBlock, baseWords,
                            result.removedPositions, "-")
        /\ BlockShowsTokens(UpdatedBlock, updatedWords,
                            result.addedPositions, "+")
        /\ baseText = updatedText =>
               NoMarker(BaseBlock) /\ NoMarker(UpdatedBlock)

\* A rendering with a removed token, an added token and a token that stays.
C12_Witness ==
    /\ Done
    /\ fn = "visualizeDiff"
    /\ result.removedPositions # <<>>
    /\ result.addedPositions # <<>>
    /\ Len(result.removedPositions) < m
    /\ \E k \in 1..Len(BaseBlock) : BaseBlock[k] = "["
    /\ \E k \in 1..Len(UpdatedBlock) : UpdatedBlock[k] = "+"

(***************************************************************************)
(* C13: the string visualizeDiff returns is the header                     *)
(* "Base text (- = removed):", a newline, the base block, a blank line,    *)
(* the header "Updated text (+ = added):", a newline and the updated       *)
(* block, each block being its wrapped or bare tokens joined by single     *)
(* spaces: one space between consecutive tokens and none after the last.   *)
(***************************************************************************)
\* "Base text (- = removed):"
BaseHeaderLine ==
    <<"B", "a", "s", "e", " ", "t", "e", "x", "t", " ", "(", "-", " ", "=",
      " ", "r", "e", "m", "o", "v", "e", "d", ")", ":">>

\* "Updated text (+ = added):"
UpdatedHeaderLine ==
    <<"U", "p", "d", "a", "t", "e", "d", " ", "t", "e", "x", "t", " ", "(",
      "+", " ", "=", " ", "a", "d", "d", "e", "d", ")", ":">>

\* The tokens of `words` as the claim writes them, in order.
WrittenTokens(words, positions, sign) ==
    [k \in 1..Len(words) |-> Written(words, k, positions, sign)]

C13_AsStated ==
    (Done /\ fn = "visualizeDiff") =>
        visualization =
            BaseHeaderLine \o <<"\n">>
            \o Join(WrittenTokens(baseWords, result.removedPositions, "-"))
            \o <<"\n", "\n">>
            \o UpdatedHeaderLine \o <<"\n">>
            \o Join(WrittenTokens(updatedWords, result.addedPositions, "+"))

(***************************************************************************)
(* C14: without a document, formatDiffAsHtml raises its own descriptive    *)
(* error for every input and every options object, before it tokenizes,    *)
(* aligns or produces anything; with a document it never raises.           *)
(***************************************************************************)
\* Nothing has been tokenized, aligned or produced.
NothingComputed ==
    /\ baseWords = <<>>
    /\ updatedWords = <<>>
    /\ lcs = <<>>
    /\ changes = <<>>
    /\ container = <<>>
    /\ html = <<>>

C14_RaisesOnlyWithoutDocument ==
    /\ document = "undefined" =>
           /\ pc \in {"call", "thrown"}
           /\ NothingComputed
           /\ pc = "call" => ENABLED ThrowWithoutDocument
           /\ pc = "thrown" =>
                  error = "formatDiffAsHtml requires a browser environment with document API. This function is not available in Node.js."
    /\ document # "undefined" =>
           /\ pc \in {"call", "fill", "backtrack", "done"}
           /\ error = ""
           /\ pc = "backtrack" => TableComplete
           /\ (pc = "backtrack" /\ LoopCondition(i, j)) => ReadsInRange
           /\ Done \/ ENABLED NextHtml

\* The error has been raised for a call with texts and an options object.
C14_Witness ==
    /\ pc = "thrown"
    /\ document = "undefined"
    /\ error # ""
    /\ Len(baseText) > 1
    /\ Len(updatedText) > 1
    /\ htmlOptions.defined
    /\ NothingComputed

(***************************************************************************)
(* C15: every token, Unchanged, Removed or Added, reaches the markup       *)
(* only as the text of a text node or of an element, so none of the        *)
(* characters & < > " ' of a token appears unescaped in the returned       *)
(* markup; a token holding a literal "&lt;" has its ampersand escaped      *)
(* again ("&amp;lt;").                                                     *)
(***************************************************************************)
RECURSIVE Concat(_)
\* The sequences of a sequence, written one after the other.
Concat(seqs) ==
    IF seqs = <<>> THEN <<>> ELSE Head(seqs) \o Concat(Tail(seqs))

\* The markup outside its tags: with every token escaped, "<" and ">"
\* occur only as tag delimiters, so the pieces between them alternate
\* between text and tag, starting with text.
TextOfMarkup(markup) ==
    LET pieces == Pieces(markup, {"<", ">"})
    IN  Concat([k \in 1..((Len(pieces) + 1) \div 2) |-> pieces[2 * k - 1]])

\* The character references a piece of text may hold, and what each means.
References ==
    {<<<<"&", "a", "m", "p", ";">>, "&">>,
     <<<<"&", "l", "t", ";">>, "<">>,
     <<<<"&", "g", "t", ";">>, ">">>,
     <<<<"&", "q", "u", "o", "t", ";">>, "\"">>,
     <<<<"&", "#", "3", "9", ";">>, "'">>}

StartsWith(text, prefix) ==
    /\ Len(text) >= Len(prefix)
    /\ SubSeq(text, 1, Len(prefix)) = prefix

\* No markup character is live in the text: < > " ' do not occur, and
\* every & begins a character reference.
NothingLive(text) ==
    \A k \in 1..Len(text) :
        /\ text[k] \notin {"<", ">", "\"", "'"}
        /\ text[k] = "&" =>
               \E ref \in References :
                   StartsWith(SubSeq(text, k, Len(text)), ref[1])

RECURSIVE Decoded(_)
\* The text a reader of the markup sees: each character reference
\* replaced, once, by its character.
Decoded(text) ==
    IF text = <<>> THEN <<>>
    ELSE IF \E ref \in References : StartsWith(text, ref[1])
         THEN LET ref == CHOOSE r \in References : StartsWith(text, r[1])
              IN  <<ref[2]>>
                  \o Decoded(SubSeq(text, Len(ref[1]) + 1, Len(text)))
         ELSE <<Head(text)>> \o Decoded(Tail(text))

\* Occurs as a contiguous part.
Contains(text, part) ==
    \E k \in 1..(Len(text) - Len(part) + 1) :
        SubSeq(text, k, k + Len(part) - 1) = part

\* The tokens of the ops, in the order of the alignment.
OpWords == [k \in 1..Len(changes) |-> changes[k].word]

\* Child 2k-1 of the container carries op k; the children between are
\* the separating spaces.
OpNode(k) == container[2 * k - 1]

C15_TokensReachOutputEscaped ==
    (Done /\ fn = "formatDiffAsHtml") =>
        LET text == TextOfMarkup(html)
            shown == IF text = <<>> THEN <<>> ELSE Pieces(text, {" "})
        IN  /\ Len(container) = Max(2 * Len(changes) - 1, 0)
            /\ \A k \in 1..Len(changes) :
                   /\ OpNode(k).nodeType \in {1, 3}
                   /\ OpNode(k).textContent = changes[k].word
            /\ NothingLive(text)
            /\ Len(shown) = Len(changes)
            /\ \A k \in 1..Len(changes) :
                   /\ Decoded(shown[k]) = changes[k].word
                   /\ Contains(changes[k].word, <<"&", "l", "t", ";">>) =>
                          Contains(shown[k], <<"&", "a", "m", "p", ";", "l", "t", ";">>)

\* Markup with an unchanged, a removed and an added token, each holding
\* some of the characters, and a token holding "&lt;".
C15_Witness ==
    /\ Done
    /\ fn = "formatDiffAsHtml"
    /\ \A type \in {"unchanged", "removed", "added"} :
           \E k \in 1..Len(changes) :
               /\ changes[k].type = type
               /\ \E x \in 1..Len(changes[k].word) :
                      changes[k].word[x] \in {"&", "<", ">", "\"", "'"}
    /\ Contains(html, <<"&", "a", "m", "p", ";", "l", "t", ";">>)

(***************************************************************************)
(* C16: for every className supplied in addedStyle or removedStyle, the    *)
(* class attribute of each styled element of that kind is the supplied     *)
(* string with every character other than a letter, a digit, a hyphen, an  *)
(* underscore or a space deleted and the others kept in order; no other    *)
(* character reaches the class attribute.                                  *)
(***************************************************************************)
Letters ==
    {"a", "b", "c", "d", "e", "f", "g", "h", "i", "j", "k", "l", "m",
     "n", "o", "p", "q", "r", "s", "t", "u", "v", "w", "x", "y", "z",
     "A", "B", "C", "D", "E", "F", "G", "H", "I", "J", "K", "L", "M",
     "N", "O", "P", "Q", "R", "S", "T", "U", "V", "W", "X", "Y", "Z"}

Digits == {"0", "1", "2", "3", "4", "5", "6", "7", "8", "9"}

\* The characters of `text` that may stay in a class attribute, in order.
Filtered(text) ==
    LET kept == {k \in 1..Len(text) :
                     text[k] \in Letters \cup Digits \cup {"-", "_", " "}}
        Nth(r) == CHOOSE k \in kept :
                      Cardinality({x \in kept : x < k}) = r - 1
    IN  [r \in 1..Cardinality(kept) |-> text[Nth(r)]]

\* The style object the caller supplied for a kind ("added", "removed"):
\* a set, empty when there is none.
Supplied(kind) ==
    IF kind = "added" THEN htmlOptions.addedStyle
    ELSE htmlOptions.removedStyle

\* The value the caller supplied for a field of a kind: a set, empty when
\* the field was not specified.
Given(kind, field) ==
    IF Supplied(kind) = {} THEN {}
    ELSE (CHOOSE style \in Supplied(kind) : TRUE)[field]

\* The ops that are rendered as styled elements, in order.
StyledOps ==
    LET styled == {k \in 1..Len(changes) : changes[k].type # "unchanged"}
        Nth(r) == CHOOSE k \in styled :
                      Cardinality({x \in styled : x < k}) = r - 1
    IN  [r \in 1..Cardinality(styled) |-> Nth(r)]

\* The opening tags of the markup, in order: the pieces between "<" and
\* ">" that do not begin with "/".
OpeningTags(markup) ==
    LET pieces == Pieces(markup, {"<", ">"})
        tags == [k \in 1..(Len(pieces) \div 2) |-> pieces[2 * k]]
    IN  SelectSeq(tags, LAMBDA tag : tag = <<>> \/ Head(tag) # "/")

\* The value of the class attribute of an opening tag, empty when the tag
\* has none.
ClassAttribute(tag) ==
    LET start == <<"s", "p", "a", "n", " ", "c", "l", "a", "s", "s", "=", "\"">>
    IN  IF StartsWith(tag, start)
        THEN LET rest == SubSeq(tag, Len(start) + 1, Len(tag))
             IN  Pieces(rest, {"\""})[1]
        ELSE <<>>

C16_ClassAttributeIsFiltered ==
    (Done /\ fn = "formatDiffAsHtml") =>
        \A r \in 1..Len(StyledOps) :
            LET kind == changes[StyledOps[r]].type
                node == OpNode(StyledOps[r])
            IN  \A className \in Given(kind, "className") :
                    /\ node.nodeType = 1
                    /\ node.className = Filtered(className)
                    /\ Len(OpeningTags(html)) = Len(StyledOps)
                    /\ ClassAttribute(OpeningTags(html)[r])
                           = Filtered(className)

\* A styled element whose supplied class name loses some characters and
\* keeps others.
C16_Witness ==
    /\ Done
    /\ fn = "formatDiffAsHtml"
    /\ \E r \in 1..Len(StyledOps) :
           \E className \in Given(changes[StyledOps[r]].type, "className") :
               /\ Filtered(className) # className
               /\ Filtered(className) # <<>>
               /\ OpNode(StyledOps[r]).className = Filtered(className)

(***************************************************************************)
(* C17: the effective style of a kind is the fields the caller supplied    *)
(* for that kind laid over that kind's own defaults (added: highlighting   *)
(* on, #90EE90, class diff-added, no line-through; removed: highlighting   *)
(* on, #FFB6C1, class diff-removed, line-through on); a field that is not  *)
(* specified takes the kind's own default, never the other kind's default  *)
(* or supplied value.                                                      *)
(***************************************************************************)
\* "background-color"
BackgroundColorName ==
    <<"b", "a", "c", "k", "g", "r", "o", "u", "n", "d", "-", "c", "o", "l",
      "o", "r">>

\* "line-through"
LineThroughName == <<"l", "i", "n", "e", "-", "t", "h", "r", "o", "u", "g", "h">>

\* The defaults of a kind, as the claim lists them.
OwnDefault(kind, field) ==
    IF kind = "added"
    THEN CASE field = "applyHighlighting" -> TRUE
           [] field = "highlightColor" -> <<"#", "9", "0", "E", "E", "9", "0">>
           [] field = "className" -> <<"d", "i", "f", "f", "-", "a", "d", "d", "e", "d">>
           [] field = "applyLineThrough" -> FALSE
    ELSE CASE field = "applyHighlighting" -> TRUE
           [] field = "highlightColor" -> <<"#", "F", "F", "B", "6", "C", "1">>
           [] field = "className" -> <<"d", "i", "f", "f", "-", "r", "e", "m", "o", "v", "e", "d">>
           [] field = "applyLineThrough" -> TRUE

\* The supplied value of a field laid over the kind's own default.
Effective(kind, field) ==
    IF Given(kind, field) = {} THEN OwnDefault(kind, field)
    ELSE CHOOSE v \in Given(kind, field) : TRUE

\* An element styled with the effective style of its kind: its class, its
\* colour and its decoration are those the effective fields give.
StyledAs(node, kind) ==
    /\ node.className = Filtered(Effective(kind, "className"))
    /\ node.style.backgroundColor =
           IF Effective(kind, "applyHighlighting")
           THEN Effective(kind, "highlightColor") ELSE <<>>
    /\ node.style.textDecoration =
           IF Effective(kind, "applyLineThrough")
           THEN LineThroughName ELSE <<>>

C17_SuppliedFieldsOverOwnDefaults ==
    (Done /\ fn = "formatDiffAsHtml") =>
        \A r \in 1..Len(StyledOps) :
            /\ OpNode(StyledOps[r]).nodeType = 1
            /\ StyledAs(OpNode(StyledOps[r]), changes[StyledOps[r]].type)

\* A removed and an added element in one markup, where one kind has some
\* fields supplied and others not, and the two kinds end up styled
\* differently.
C17_Witness ==
    /\ Done
    /\ fn = "formatDiffAsHtml"
    /\ Len(StyledOps) = 2
    /\ changes[StyledOps[1]].type # changes[StyledOps[2]].type
    /\ \E kind \in {"added", "removed"} :
           /\ Given(kind, "className") # {}
           /\ Given(kind, "highlightColor") = {}
           /\ Given(kind, "applyHighlighting") = {}
    /\ OpNode(StyledOps[1]).style.backgroundColor
           # OpNode(StyledOps[2]).style.backgroundColor
    /\ OpNode(StyledOps[1]).style.backgroundColor # <<>>
    /\ OpNode(StyledOps[2]).style.backgroundColor # <<>>

(***************************************************************************)
(* C18: each styled element emitted for a Removed or Added op has an       *)
(* inline background-color exactly when its kind's effective               *)
(* applyHighlighting is true and its highlightColor is non-empty, has a    *)
(* line-through declaration exactly when its kind's effective              *)
(* applyLineThrough is true, and has the token text as its only content.   *)
(***************************************************************************)
\* The text between the opening tag r of the markup and the tag after it.
ContentOfElement(markup, r) ==
    LET pieces == Pieces(markup, {"<", ">"})
        opening == {k \in 1..(Len(pieces) \div 2) :
                        pieces[2 * k] = <<>> \/ Head(pieces[2 * k]) # "/"}
        tag == CHOOSE k \in opening :
                   Cardinality({x \in opening : x < k}) = r - 1
    IN  pieces[2 * tag + 1]

C18_DeclarationsFollowEffectiveStyle ==
    (Done /\ fn = "formatDiffAsHtml") =>
        /\ Len(OpeningTags(html)) = Len(StyledOps)
        /\ \A r \in 1..Len(StyledOps) :
               LET kind == changes[StyledOps[r]].type
                   tag == OpeningTags(html)[r]
               IN  /\ Contains(tag, BackgroundColorName)
                       <=> (/\ Effective(kind, "applyHighlighting")
                            /\ Effective(kind, "highlightColor") # <<>>)
                   /\ Contains(tag, LineThroughName)
                       <=> Effective(kind, "applyLineThrough")
                   /\ OpNode(StyledOps[r]).textContent
                          = changes[StyledOps[r]].word
                   /\ ContentOfElement(html, r) = changes[StyledOps[r]].word

\* An element with a colour supplied but highlighting switched off, next
\* to an element that is struck through: the first has no declaration.
C18_Witness ==
    /\ Done
    /\ fn = "formatDiffAsHtml"
    /\ Len(StyledOps) = 2
    /\ \E r \in 1..2 :
           LET kind == changes[StyledOps[r]].type
           IN  /\ Given(kind, "applyHighlighting") = {FALSE}
               /\ \E colour \in Given(kind, "highlightColor") :
                      colour # <<>>
               /\ ~Effective(kind, "applyLineThrough")
               /\ ~Contains(OpeningTags(html)[r],
                            <<"s", "t", "y", "l", "e">>)
    /\ \E r \in 1..2 : Contains(OpeningTags(html)[r], LineThroughName)

(***************************************************************************)
(* C19: showAdded and showRemoved default to true; with showAdded false    *)
(* every Added token is emitted as bare text with no element, with         *)
(* showRemoved false every Removed token is; in both cases the token text  *)
(* is still in the output and the other kind's styling is unaffected.      *)
(***************************************************************************)
\* The show flag of a kind as the caller set it; true when not set.
ShowFlag(kind) ==
    LET flag == IF kind = "added" THEN htmlOptions.showAdded
                ELSE htmlOptions.showRemoved
    IN  flag # "false"

C19_AsStated ==
    (Done /\ fn = "formatDiffAsHtml") =>
        \A r \in 1..Len(StyledOps) :
            LET kind == changes[StyledOps[r]].type
                node == OpNode(StyledOps[r])
            IN  /\ node.textContent = changes[StyledOps[r]].word
                /\ node.nodeType = IF ShowFlag(kind) THEN 1 ELSE 3

(***************************************************************************)
(* C20: when the alignment holds no Removed and no Added op (the token     *)
(* sequences are identical, also under ignoreCase and after white space    *)
(* is normalised), formatDiffAsHtml returns exactly the tokens joined by   *)
(* single spaces, with no element at all; two empty texts give the empty   *)
(* string.                                                                 *)
(***************************************************************************)
NoElement == \A k \in 1..Len(container) : container[k].nodeType = 3

\* As stated: the returned string is the tokens themselves.
C20_AsStated ==
    (Done /\ fn = "formatDiffAsHtml" /\ StyledOps = <<>>) =>
        /\ NoElement
        /\ html = Join(OpWords)

\* As the code has it: the returned string is the tokens of the base text
\* joined by single spaces, with each & < > " ' of a token written as its
\* character reference; no element, and "" for two empty texts.
C20_EscapedJoinedTokens ==
    (Done /\ fn = "formatDiffAsHtml" /\ StyledOps = <<>>) =>
        /\ NoElement
        /\ NothingLive(html)
        /\ Decoded(html) = Join(baseWords)
        /\ OpWords = baseWords
        /\ (baseText = <<>> /\ updatedText = <<>>) => html = <<>>

\* Two different texts with the same tokens up to case and white space,
\* compared with ignoreCase, rendered without any element.
C20_Witness ==
    /\ Done
    /\ fn = "formatDiffAsHtml"
    /\ StyledOps = <<>>
    /\ Len(changes) = 2
    /\ baseWords # updatedWords
    /\ baseText # Join(baseWords)
    /\ html # <<>>
    /\ NoElement

(***************************************************************************)
(* C21: in the output of formatDiffAsHtml, where a token is replaced (a    *)
(* base token removed and an updated token added at the same place), the   *)
(* old, removed token is rendered before the new, added token, and changes *)
(* are not grouped by side.                                                *)
(***************************************************************************)
\* Ops k and k + 1 of the alignment are rendered as elements, the first of
\* kind `first` and the second of kind `second`, with only the separating
\* space between them.
RenderedAdjacent(k, first, second) ==
    /\ changes[k].type = first
    /\ changes[k + 1].type = second
    /\ OpNode(k).nodeType = 1
    /\ OpNode(k + 1).nodeType = 1
    /\ OpNode(k).textContent = changes[k].word
    /\ OpNode(k + 1).textContent = changes[k + 1].word

\* As stated: a removed token and an added token that stand next to each
\* other in the output stand old before new.
C21_AsStated ==
    (Done /\ fn = "formatDiffAsHtml") =>
        \A k \in 1..(Len(changes) - 1) :
            ~RenderedAdjacent(k, "added", "removed")

(***************************************************************************)
(* C22: in the forward op sequence of computeLCS, and so in the word order *)
(* of the output of formatDiffAsHtml, no Removed op is immediately         *)
(* followed by an Added op: within each maximal run of changed tokens      *)
(* between unchanged tokens all Added tokens come before all Removed       *)
(* tokens.                                                                 *)
(***************************************************************************)
\* The ops from position k on, up to the next Unchanged op, are all Removed.
RECURSIVE OnlyRemovedUntilUnchanged(_)
OnlyRemovedUntilUnchanged(k) ==
    IF k > Len(changes) THEN TRUE
    ELSE IF changes[k].type = "unchanged" THEN TRUE
    ELSE changes[k].type = "removed" /\ OnlyRemovedUntilUnchanged(k + 1)

Escaped(token) ==
    Concat([k \in 1..Len(token) |->
               IF \E ref \in References : ref[2] = token[k]
               THEN (CHOOSE ref \in References : ref[2] = token[k])[1]
               ELSE <<token[k]>>])

\* The children of the container: a segment for op k at child 2k - 1, an
\* element exactly for a Removed or Added op, and a text node holding one
\* space at every child between two segments.
OneSegmentPerOp ==
    /\ Len(container) = Max(2 * Len(changes) - 1, 0)
    /\ \A k \in 1..Len(changes) :
           /\ OpNode(k).textContent = changes[k].word
           /\ OpNode(k).nodeType =
                  IF changes[k].type = "unchanged" THEN 3 ELSE 1
    /\ \A k \in 1..(Len(changes) - 1) :
           /\ container[2 * k].nodeType = 3
           /\ container[2 * k].textContent = <<" ">>

C23_SegmentsSeparatedBySingleSpaces ==
    (Done /\ fn = "formatDiffAsHtml") =>
        /\ OneSegmentPerOp
        /\ TextOfMarkup(html)
               = Join([k \in 1..Len(changes) |-> Escaped(changes[k].word)])

\* Markup of three ops, styled and bare, whose text has two spaces.
C23_Witness ==
    /\ Done
    /\ fn = "formatDiffAsHtml"
    /\ Len(changes) = 3
    /\ Len(container) = 5
    /\ \E k \in 1..3 : changes[k].type = "unchanged"
    /\ \E k \in 1..3 : changes[k].type = "removed"
    /\ Cardinality({k \in 1..Len(TextOfMarkup(html)) :
                        TextOfMarkup(html)[k] = " "}) = 2

(***************************************************************************)
(* C24: the op sequence computeLCS returns is exactly the reverse of the   *)
(* sequence the three-rule backtrack emits from (m, n) to (0, 0):          *)
(* Unchanged when i > 0, j > 0 and the tokens are equal; otherwise Removed *)
(* when i > 0 and (j = 0 or L[i-1][j] >= L[i][j-1]), so that a tie in LCS  *)
(* counts always emits Removed; otherwise Added.                           *)
(***************************************************************************)
\* L[a][b]: the length of a longest common subsequence of the first a base
\* tokens and the first b updated tokens.
L(a, b) ==
    LET common == {S \in SUBSET (1..a) :
                       IsSubsequence(Pick(baseWords, S),
                                     SubSeq(updatedWords, 1, b))}
    IN  CHOOSE l \in 0..a :
            /\ \E S \in common : Cardinality(S) = l
            /\ \A S \in common : Cardinality(S) <= l

\* The ops the three rules emit from (a, b) down to (0, 0), first emitted
\* first.
RECURSIVE Emitted(_, _)
Emitted(a, b) ==
    IF a = 0 /\ b = 0 THEN <<>>
    ELSE IF a > 0 /\ b > 0 /\ ChosenEqual(baseWords[a], updatedWords[b])
    THEN <<[type |-> "unchanged", word |-> baseWords[a],
            baseIndex |-> a - 1, updatedIndex |-> b - 1]>>
         \o Emitted(a - 1, b - 1)
    ELSE IF a > 0 /\ (b = 0 \/ L(a - 1, b) >= L(a, b - 1))
    THEN <<[type |-> "removed", word |-> baseWords[a],
            baseIndex |-> a - 1]>>
         \o Emitted(a - 1, b)
    ELSE <<[type |-> "added", word |-> updatedWords[b],
            updatedIndex |-> b - 1]>>
         \o Emitted(a, b - 1)

Reverse(seq) == [k \in 1..Len(seq) |-> seq[Len(seq) + 1 - k]]

\* The three rules meet a tie somewhere on the way from (a, b).
RECURSIVE TieOnPath(_, _)
TieOnPath(a, b) ==
    IF a = 0 \/ b = 0 THEN FALSE
    ELSE IF ChosenEqual(baseWords[a], updatedWords[b])
    THEN TieOnPath(a - 1, b - 1)
    ELSE IF L(a - 1, b) >= L(a, b - 1)
    THEN L(a - 1, b) = L(a, b - 1) \/ TieOnPath(a - 1, b)
    ELSE TieOnPath(a, b - 1)

C24_ReverseOfThreeRuleBacktrack ==
    /\ Done => changes = Reverse(Emitted(m, n))
    /\ (pc = "backtrack" /\ i = m /\ j = n) =>
           \A a \in 0..m : \A b \in 0..n : Cell(lcs, a, b) = L(a, b)

\* A returned sequence with all three kinds of op whose backtrack met a tie.
C24_Witness ==
    /\ Done
    /\ TieOnPath(m, n)
    /\ \A type \in {"unchanged", "removed", "added"} :
           \E k \in 1..Len(changes) : changes[k].type = type
    /\ changes = Reverse(Emitted(m, n))

(***************************************************************************)
(* C25: compareTexts, visualizeDiff and formatDiffAsHtml are deterministic *)
(* and keep no state between calls: what a call returns depends only on    *)
(* its arguments (and, for formatDiffAsHtml, on the document being there), *)
(* so in any sequence of calls each call returns what it returns when it   *)
(* is made alone.                                                          *)
(***************************************************************************)
\* What formatDiffAsHtml returns for its arguments when called alone with
\* a document.
formatDiffAsHtmlAlone(bText, uText, htmlOpts) ==
    innerHTML(BuildContainer(computeLCS(Tokenize(bText), Tokenize(uText),
                                        compareOptionsOf(htmlOpts)),
                             htmlOpts))

C25_CallsAreIndependent ==
    /\ Done =>
           CASE fn = "compareTexts" ->
                    result = compareTexts(baseText, updatedText, options)
             [] fn = "visualizeDiff" ->
                    visualization =
                        visualizeDiff(compareTexts(baseText, updatedText,
                                                   options),
                                      baseText, updatedText)
             [] fn = "formatDiffAsHtml" ->
                    /\ document # "undefined"
                    /\ html = formatDiffAsHtmlAlone(baseText, updatedText,
                                                    htmlOptions)
    /\ pc = "thrown" =>
           /\ fn = "formatDiffAsHtml"
           /\ document = "undefined"
           /\ error = EnvironmentError

\* compareTexts has returned a diff after calls of the other two functions
\* had left their own output behind.
C25_Witness ==
    /\ Done
    /\ fn = "compareTexts"
    /\ result.removedPositions # <<>>
    /\ visualization # <<>>
    /\ html # <<>>
    /\ error # ""
    /\ result = compareTexts(baseText, updatedText, options)

(***************************************************************************)
(* C26: a caller can impose a maximum on the product m * n of the two      *)
(* token counts (or on m and n each), and a comparison whose inputs exceed *)
(* the maximum fails fast, before the (m + 1) x (n + 1) table is           *)
(* allocated.                                                              *)
(***************************************************************************)
\* The table has been allocated.
TableAllocated == lcs # <<>>

\* As stated, for a caller whose maximum is `maximum`: whatever such a
\* caller passes, a comparison above the maximum never has its table.
FailsFastAbove(maximum) ==
    (pc # "call" /\ m * n > maximum) => (~TableAllocated /\ ~Done)

C26_AsStated == \A maximum \in 0..(MaxWords * MaxWords) : FailsFastAbove(maximum)

(***************************************************************************)
(* C27: formatDiffAsHtml never modifies the options object or the          *)
(* addedStyle and removedStyle objects the caller passed: after a call     *)
(* each has the fields and values it had before, and the defaults a later  *)
(* call uses are unaffected by the overrides of an earlier call.           *)
(***************************************************************************)
\* A step of a call, as opposed to the caller making the next call.
StepOfCall == pc \notin {"done", "thrown"}

\* Every element of a kind for which the current call supplies no style
\* object is styled with the defaults of its kind, whatever earlier calls
\* supplied.
DefaultsIntact ==
    \A r \in 1..Len(StyledOps) :
        LET kind == changes[StyledOps[r]].type
            node == OpNode(StyledOps[r])
        IN  Supplied(kind) = {} =>
                /\ node.className = OwnDefault(kind, "className")
                /\ node.style.backgroundColor
                       = OwnDefault(kind, "highlightColor")
                /\ (node.style.textDecoration = LineThroughName)
                       <=> OwnDefault(kind, "applyLineThrough")

C27_OptionsNeverModified ==
    /\ [][StepOfCall => htmlOptions' = htmlOptions]_vars
    /\ []((Done /\ fn = "formatDiffAsHtml") => DefaultsIntact)

\* A call that supplied style objects with some fields has returned
\* elements styled from them, and the objects are as they were supplied.
C27_Witness ==
    /\ Done
    /\ fn = "formatDiffAsHtml"
    /\ htmlOptions.addedStyle # {}
    /\ \E style \in htmlOptions.addedStyle :
           \E f \in StyleFields : style[f] = {}
    /\ \E r \in 1..Len(StyledOps) :
           OpNode(StyledOps[r]).className # OwnDefault(changes[StyledOps[r]].type, "className")

(***************************************************************************)
(* C28: In every op sequence produced by computeLCS the Unchanged ops form *)
(* a valid common subsequence: each pairs a base token and an updated      *)
(* token that are equal under the chosen comparison, and along the op      *)
(* sequence both the baseIndex and the updatedIndex of successive          *)
(* Unchanged ops strictly increase.                                        *)
(***************************************************************************)
\* The positions in `changes` of the Unchanged ops, in order.
UnchangedOps == Pick(Interval(1, Len(changes)), OpsOf({"unchanged"}))

C28_UnchangedOpsAreCommonSubsequence ==
    Done =>
        /\ \A r \in 1..Len(UnchangedOps) :
               LET op == changes[UnchangedOps[r]]
               IN  /\ op.baseIndex \in 0..(m - 1)
                   /\ op.updatedIndex \in 0..(n - 1)
                   /\ ChosenEqual(baseWords[op.baseIndex + 1],
                                  updatedWords[op.updatedIndex + 1])
        /\ StrictlyIncreasing([r \in 1..Len(UnchangedOps) |->
                                  changes[UnchangedOps[r]].baseIndex])
        /\ StrictlyIncreasing([r \in 1..Len(UnchangedOps) |->
                                  changes[UnchangedOps[r]].updatedIndex])

\* Two Unchanged ops after other ops, the second pairing tokens that differ
\* in case.
C28_Witness ==
    /\ Done
    /\ Len(UnchangedOps) = 2
    /\ changes[UnchangedOps[1]].baseIndex
           # changes[UnchangedOps[1]].updatedIndex
    /\ UnchangedOps[1] > 1
    /\ IgnoreCaseChosen
    /\ baseWords[changes[UnchangedOps[2]].baseIndex + 1]
           # updatedWords[changes[UnchangedOps[2]].updatedIndex + 1]

(***************************************************************************)
(* C29: The backtracking loop of computeLCS terminates for every input:    *)
(* each iteration decreases i + j by one or two, i and j stay within       *)
(* [0, m] and [0, n] so no table cell or token outside the arrays is read, *)
(* the loop ends with i = j = 0, and it emits exactly                      *)
(* m + n - (number of Unchanged ops) ops.                                  *)
(***************************************************************************)
Looping == pc = "backtrack" /\ LoopCondition(i, j)

\* One iteration: one op more, i + j lower by one or by two.
Iteration ==
    /\ pc' = "backtrack"
    /\ (i' + j') \in {i + j - 1, i + j - 2}
    /\ i' \in {i, i - 1}
    /\ j' \in {j, j - 1}
    /\ Len(changes') = Len(changes) + 1

\* The loop is at a cell of the table, and the ops emitted so far account
\* for the distance covered from (m, n).
WithinTable ==
    /\ TableComplete
    /\ i \in 0..m
    /\ j \in 0..n
    /\ Len(changes) + NumUnchanged = (m - i) + (n - j)

LoopEnded == pc = "backtrack" /\ ~LoopCondition(i, j)

\* Termination: i + j is a natural number while the loop runs, every
\* iteration lowers it, and an iteration is possible as long as the loop
\* condition holds, so the loop ends after at most m + n iterations.

C29_BacktrackingLoopTerminates ==
    /\ [][Looping => Iteration]_vars
    /\ [](pc = "backtrack" => WithinTable)
    /\ [](LoopEnded =>
              /\ i = 0 /\ j = 0
              /\ Len(changes) = m + n - NumUnchanged)
    /\ [](Looping => ENABLED <<Next>>_vars)

\* The loop has ended after iterations of all three kinds, one of them
\* lowering i + j by two.
C29_Witness ==
    /\ LoopEnded
    /\ m >= 2 /\ n >= 2
    /\ OpsOf({"unchanged"}) # {}
    /\ OpsOf({"removed"}) # {}
    /\ OpsOf({"added"}) # {}
    /\ Len(changes) < m + n

(***************************************************************************)
(* C30: For every pair of texts A and B and either ignoreCase setting, the *)
(* number of removed positions of compareTexts(A, B) equals the number of  *)
(* added positions of compareTexts(B, A), and the number of added          *)
(* positions of compareTexts(A, B) equals the number of removed positions  *)
(* of compareTexts(B, A).                                                  *)
(***************************************************************************)
\* compareTexts(B, A) for the call compareTexts(A, B) that has returned.
Swapped == compareTexts(updatedText, baseText, options)

C30_SwappingTextsSwapsCounts ==
    Done =>
        /\ Len(result.removedPositions) = Len(Swapped.addedPositions)
        /\ Len(result.addedPositions) = Len(Swapped.removedPositions)

\* Both lists are non-empty and of different lengths, and the positions
\* themselves are not those of the swapped call.
C30_Witness ==
    /\ Done
    /\ Len(result.addedPositions) > 0
    /\ Len(result.removedPositions) > Len(result.addedPositions)
    /\ result.removedPositions # Swapped.addedPositions

=============================================================================
